---- MODULE Spec2Model ----
(***************************************************************************)
(* QuizSmith: the batch pipeline of multiple_book.py.                      *)
(*                                                                         *)
(*   Spec        one run of MultipleBookProcessor.process_books_in_batches *)
(*               (windows of concurrent process_single_book tasks)         *)
(*   FairSpec    Spec with the event loop's fairness                       *)
(*   ResolveSpec one get_book_by_title call, over titles and responses     *)
(*   ParseSpec   parse_multiple_books, over documents                      *)
(*   ItemSpec    one process_single_book task up to the counting loop      *)
(*   MainSpec    main(): from the constructor to the process's exit        *)
(*                                                                         *)
(* Text is a sequence of one-character strings.                            *)
(***************************************************************************)
EXTENDS Integers, Sequences, FiniteSets, TLC

VARIABLES
    env,          \* the process's surroundings: is AUTH_TOKEN set, does the file exist
    reports,      \* the report files written by save_results_to_file
    exit_code,    \* the exit status of the process, -1 while it runs
    overtaken,    \* history: in the batch started last, a task finished before an earlier one
    plan,         \* history: the sections the document was written from
    content,      \* process_all_books: the text of the document
    books,        \* the list of BookData: parse_multiple_books' result, the run's input
    batch_size,   \* process_books_in_batches: the batch_size argument
    i,            \* the loop variable of `for i in range(0, len(books), batch_size)`
    pc,           \* where process_books_in_batches stands
    task,         \* per book (1-based position in books): its process_single_book task
    results,      \* the dict {"successful": .., "failed": ..}
    windows,      \* history: batches started
    sleeps        \* history: asyncio.sleep(2) calls made

vars == <<env, reports, exit_code, overtaken, plan, content, books, batch_size, i, pc, task, results, windows, sleeps>>

-----------------------------------------------------------------------------
(* Bounds *)

MaxBooks == 4
MaxBatch == 3
MaxPieces == 3
MaxResults == 2
MaxSections == 3

-----------------------------------------------------------------------------
(* Characters and strings *)

Letters == {"L", "e", "t", "s", "B", "o", "k", "a", "u", "i", "l", "d"}
Digits == {"0", "1", "2", "3", "4", "5", "6", "7", "8", "9"}
Spaces == {" ", "\n"}
Puncts == {"'", ":", "[", "]", "\""}

\* \w of Python's re: letters, digits and the underscore
IsWordChar(c) == c \in Letters \cup Digits \cup {"_"}

\* \s of Python's re
IsSpace(c) == c \in Spaces

Min(a, b) == IF a < b THEN a ELSE b

\* s[n:] for n >= 0
DropFirst(s, n) == SubSeq(s, Min(n, Len(s)) + 1, Len(s))

\* s.startswith(p)
StartsWith(s, p) == Len(s) >= Len(p) /\ SubSeq(s, 1, Len(p)) = p

RECURSIVE LStrip(_)
LStrip(s) == IF s # <<>> /\ IsSpace(Head(s)) THEN LStrip(Tail(s)) ELSE s

RECURSIVE RStrip(_)
RStrip(s) ==
    IF s # <<>> /\ IsSpace(s[Len(s)]) THEN RStrip(SubSeq(s, 1, Len(s) - 1)) ELSE s

\* str.strip()
Strip(s) == RStrip(LStrip(s))

-----------------------------------------------------------------------------
(* get_book_by_title: the queries *)

LetsPrefix == <<"L", "e", "t", "'", "s", " ">>

LetsPrefixLen == 6

\* mutant: title[5:], one character short
SearchTitleFive(title) ==
    IF StartsWith(title, LetsPrefix) THEN DropFirst(title, LetsPrefixLen - 1) ELSE title

\* lines 92-94: search_title
SearchTitle(title) ==
    IF StartsWith(title, LetsPrefix) THEN DropFirst(title, LetsPrefixLen) ELSE title

\* urllib.parse.quote(s, safe=''): the characters left as they are
Unreserved == Letters \cup Digits \cup {"_", ".", "-", "~"}

\* the two hexadecimal digits of a character's code, as one symbol
HexCode(c) ==
    CASE c = " " -> "20" [] c = "\n" -> "0A" [] c = "'" -> "27" [] c = ":" -> "3A"
      [] c = "[" -> "5B" [] c = "]" -> "5D" [] c = "\"" -> "22" [] OTHER -> "25"

RECURSIVE Quote(_)
\* lines 98 and 128: urllib.parse.quote(s, safe='')
Quote(s) ==
    IF s = <<>> THEN <<>>
    ELSE (IF Head(s) \in Unreserved THEN <<Head(s)>> ELSE <<"%", HexCode(Head(s))>>)
         \o Quote(Tail(s))

\* lines 98-99: the title parameter of the first request
FirstQuery(title) == Quote(SearchTitle(title))

KeepWordOrSpace(c) == IsWordChar(c) \/ IsSpace(c)

\* mutant: the pattern [^\w] instead of [^\w\s]: whitespace removed as well
SimplifiedTitleNoSpaces(search_title) == Strip(SelectSeq(search_title, IsWordChar))

\* line 125: re.sub(r'[^\w\s]', '', search_title).strip()
SimplifiedTitle(search_title) == Strip(SelectSeq(search_title, KeepWordOrSpace))

\* lines 128-129: the title parameter of the second request
SecondQuery(title) == Quote(SimplifiedTitle(SearchTitle(title)))

-----------------------------------------------------------------------------
(* The catalog's answers to GET /books/by-title *)

\* an element of data["result"]: a dict carrying 'nid', a dict without it
\* (pagination info), or something that is no dict
BookEntry(n) == [kind |-> "book", nid |-> n]
MetaEntry == [kind |-> "meta", nid |-> 0]
ScalarEntry == [kind |-> "scalar", nid |-> 0]

\* Python's None, as get_book_by_title returns it
None == [kind |-> "none", nid |-> 0]

\* status 0 stands for session.get raising (transport failure, timeout)
LookupResponse(st, b, ok, res) == [status |-> st, body |-> b, success |-> ok, result |-> res]
NoResponse == LookupResponse(-1, "none", FALSE, <<>>)
NotFound == LookupResponse(404, "none", FALSE, <<>>)
ServerError == LookupResponse(500, "none", FALSE, <<>>)
TransportError == LookupResponse(0, "none", FALSE, <<>>)

\* isinstance(item, dict) and 'nid' in item
IsBook(item) == item.kind = "book"

\* mutant: book_list[-1] instead of book_list[0]
HandleLookupLast(resp) ==
    IF resp.status = 0 THEN [kind |-> "raise", book |-> None]
    ELSE IF resp.status = 200 THEN
        IF resp.body # "object" THEN [kind |-> "raise", book |-> None]
        ELSE IF resp.success /\ resp.result # <<>> THEN
            LET book_list == SelectSeq(resp.result, IsBook)
            IN  IF book_list # <<>>
                THEN [kind |-> "return", book |-> book_list[Len(book_list)]]
                ELSE [kind |-> "fallthrough", book |-> None]
        ELSE [kind |-> "fallthrough", book |-> None]
    ELSE [kind |-> "fallthrough", book |-> None]

\* lines 108-122 (and 131-139): what one lookup attempt does with its response.
\* "return": return book_list[0]; "fallthrough": leave the `async with` block;
\* "raise": an exception reaches the handler of line 142
HandleLookup(resp) ==
    IF resp.status = 0 THEN [kind |-> "raise", book |-> None]
    ELSE IF resp.status = 200 THEN
        IF resp.body # "object" THEN [kind |-> "raise", book |-> None]
        ELSE IF resp.success /\ resp.result # <<>> THEN
            LET book_list == SelectSeq(resp.result, IsBook)
            IN  IF book_list # <<>>
                THEN [kind |-> "return", book |-> book_list[1]]
                ELSE [kind |-> "fallthrough", book |-> None]
        ELSE [kind |-> "fallthrough", book |-> None]
    ELSE [kind |-> "fallthrough", book |-> None]

-----------------------------------------------------------------------------
(* The formatter's answers (AISuggestion.get_suggestion) *)

\* kind: "api_error" (the completion call raises), "not_json" (json.loads
\* raises), "bad_schema" (the pydantic model rejects the object), "quiz"
FormatResponse(k, id, qs) == [kind |-> k, bookId |-> id, questions |-> qs]

\* an element of "questions": single_book_suggestion_schema.py types it Dict,
\* so get_suggestion passes on whatever the object holds
Question(n, opts, correct) == [questionNo |-> n, options |-> opts, correctAnswers |-> correct]

NoQuiz == [bookId |-> 0, questions |-> <<>>, built |-> FALSE]

\* single_book_suggestion.py lines 18-22: TRUE when get_suggestion raises
SuggestionRaises(fr) == fr.kind # "quiz"

\* lines 195-199: quiz_data built from ai_response
QuizData(fr) == [bookId |-> fr.bookId, questions |-> fr.questions, built |-> TRUE]

-----------------------------------------------------------------------------
(* The catalog's answers to POST /quizz/create *)

\* status 0 stands for session.post raising; body: does response.json() parse
SubmitResponse(st, b) == [status |-> st, body |-> b]

\* lines 162, 165 and 206: what a create_quiz call that fails logs
SubmitLog(sr) ==
    IF sr.status \in {200, 201} /\ sr.body = "json" THEN <<>>
    ELSE IF sr.status \in {0, 200, 201}
         THEN <<"Error creating quiz", "Failed to create quiz">>
         ELSE <<"Quiz creation failed", "Failed to create quiz">>

\* lines 146-166: the value create_quiz returns
CreateQuiz(sr) ==
    IF sr.status = 0 THEN FALSE
    ELSE IF sr.status \in {200, 201} THEN sr.body = "json"
    ELSE FALSE

-----------------------------------------------------------------------------
(* process_single_book: one task per book *)

\* pc: "idle" (no task yet), "ready" (task created by gather, not yet run),
\* "lookup1", "lookup2", "format", "submit" (awaiting that call), "done".
\* ret: the task's result as gather sees it: "none", "true", "false", "exception".
\* queries: the title parameters of the requests sent; lookup: the last lookup
\* response received.
\* log: the warnings and errors logged for the item, each by the first words
\* of its message.
\* term, created, window (the batch that created the task), formatCalls,
\* submitCalls and submitStatus are history.
NewTask ==
    [pc |-> "idle", ret |-> "none", term |-> "none", queries |-> <<>>,
     lookup |-> NoResponse, book_info |-> None,
     quiz_data |-> NoQuiz, created |-> 0, window |-> 0, formatCalls |-> 0,
     submitCalls |-> 0, submitStatus |-> -1, log |-> <<>>]

\* logger.warning(...) / logger.error(...)
Logged(t, msgs) == [t EXCEPT !.log = @ \o msgs]

\* line 229: the coroutine object handed to gather
Created(t, w) == [t EXCEPT !.pc = "ready", !.created = @ + 1, !.window = w]

\* `return <value>` of process_single_book
Finish(t, value, state) ==
    [t EXCEPT !.pc = "done", !.ret = IF value THEN "true" ELSE "false", !.term = state]

\* lines 170-174 and 91-108: the task runs up to its first session.get
FirstRequest(t, title) ==
    [t EXCEPT !.pc = "lookup1", !.queries = Append(@, FirstQuery(title))]

\* lines 175-192: book_info is a non-empty dict, so the formatter is called
AfterResolve(t, book) ==
    [t EXCEPT !.pc = "format", !.book_info = book, !.formatCalls = @ + 1]

\* mutant: the second request sent without the test of line 126
AfterFallthroughAlways(t, title) ==
    [t EXCEPT !.pc = "lookup2", !.queries = Append(@, SecondQuery(title))]

\* lines 141 and 175-177: get_book_by_title returned None
NotResolved(t) == Finish(Logged(t, <<"Could not find book info">>), FALSE, "Unresolved")

\* lines 142-144: an exception inside get_book_by_title
LookupRaised(t) == NotResolved(Logged(t, <<"Error fetching book info">>))

\* lines 118-122: what the first attempt logs about its response's status
FirstAttemptLog(resp) ==
    IF resp.status = 404 THEN <<"Book not found">>
    ELSE IF resp.status \notin {0, 200} THEN <<"API request failed">>
    ELSE <<>>

\* lines 124-144 after the first attempt fell through, for the search title
AfterFallthrough(t, title) ==
    IF SimplifiedTitle(SearchTitle(title)) # SearchTitle(title)
    THEN [t EXCEPT !.pc = "lookup2", !.queries = Append(@, SecondQuery(title))]
    ELSE NotResolved(t)

\* mutant: a 200 without a usable entry handled as an error
AfterLookup1EmptyIsError(t, title, resp) ==
    LET o == HandleLookup(resp)
        got == Logged([t EXCEPT !.lookup = resp], FirstAttemptLog(resp))
    IN  CASE o.kind = "return" -> AfterResolve(got, o.book)
          [] o.kind = "fallthrough" /\ resp.status # 200 -> AfterFallthrough(got, title)
          [] OTHER -> LookupRaised(got)

\* lines 174-177 with lines 108-144: the first response arrives
AfterLookup1(t, title, resp) ==
    LET o == HandleLookup(resp)
        got == Logged([t EXCEPT !.lookup = resp], FirstAttemptLog(resp))
    IN  CASE o.kind = "return" -> AfterResolve(got, o.book)
          [] o.kind = "fallthrough" -> AfterFallthrough(got, title)
          [] OTHER -> LookupRaised(got)

\* mutant: the formatter called although the second attempt found nothing
AfterLookup2Regardless(t, resp) ==
    LET o == HandleLookup(resp)
        got == [t EXCEPT !.lookup = resp]
    IN  IF o.kind = "raise" THEN LookupRaised(got) ELSE AfterResolve(got, o.book)

\* lines 131-144: the second response arrives
AfterLookup2(t, resp) ==
    LET o == HandleLookup(resp)
        got == [t EXCEPT !.lookup = resp]
    IN  CASE o.kind = "return" -> AfterResolve(got, o.book)
          [] o.kind = "fallthrough" -> NotResolved(got)
          [] OTHER -> LookupRaised(got)

\* lines 192-202 and 210-212: the formatter answers
AfterFormat(t, fr) ==
    IF SuggestionRaises(fr)
    THEN Finish(Logged(t, <<"Error processing book">>), FALSE, "FormatFailed")
    ELSE [t EXCEPT !.pc = "submit", !.quiz_data = QuizData(fr), !.submitCalls = @ + 1]

\* mutant: a create_quiz failure answered by calling create_quiz again
AfterSubmitRetrying(t, sr) ==
    IF CreateQuiz(sr) THEN [Finish(t, TRUE, "Submitted") EXCEPT !.submitStatus = sr.status]
    ELSE IF t.submitCalls < 2 THEN [t EXCEPT !.submitCalls = @ + 1, !.submitStatus = sr.status]
    ELSE [Finish(t, FALSE, "SubmitFailed") EXCEPT !.submitStatus = sr.status]

\* lines 202-208: create_quiz answers
AfterSubmit(t, sr) ==
    LET success == CreateQuiz(sr)
    IN  [Finish(Logged(t, SubmitLog(sr)), success,
                IF success THEN "Submitted" ELSE "SubmitFailed")
            EXCEPT !.submitStatus = sr.status]

-----------------------------------------------------------------------------
(* process_books_in_batches *)

\* line 219: aiohttp.TCPConnector(limit=10, limit_per_host=5)
ConnectorLimit == 10
LimitPerHost == 5

\* mutant: a slice without its upper bound: books[i:]
BatchUnbounded(n, start, size) == {k \in 1..n : start < k}

\* mutant: a slice one element too long: books[i:i + batch_size + 1]
BatchOverlapping(n, start, size) == {k \in 1..n : start < k /\ k <= start + size + 1}

\* line 225: books[i:i + batch_size], as 1-based positions
Batch(n, start, size) == {k \in 1..n : start < k /\ k <= start + size}

\* mutant: a gather that cancels the unfinished tasks when one task fails
SettleCancelling(tasks, k, t) ==
    [j \in DOMAIN tasks |->
        IF j = k THEN t
        ELSE IF t.ret = "false" /\ tasks[j].pc \notin {"idle", "done"}
             THEN [tasks[j] EXCEPT !.pc = "done", !.ret = "false", !.term = "Cancelled"]
             ELSE tasks[j]]

\* line 230: gather(..., return_exceptions=True) keeps each task's outcome in
\* its own slot and lets the other tasks run
Settle(tasks, k, t) == [tasks EXCEPT ![k] = t]

\* mutant: a gather that returns with its first finished task
GatherCompleteAny(tasks, batch) == \E k \in batch : tasks[k].pc = "done"

\* line 230: gather returns when every task of the batch is done
GatherComplete(tasks, batch) == \A k \in batch : tasks[k].pc = "done"

\* mutant: the counting loop without its last branch
CountOneNoElse(res, ret) ==
    IF ret = "exception" THEN [res EXCEPT !.failed = @ + 1]
    ELSE IF ret = "true" THEN [res EXCEPT !.successful = @ + 1]
    ELSE res

\* lines 233-240: the counting loop, for one result
CountOne(res, ret) ==
    IF ret = "exception" THEN [res EXCEPT !.failed = @ + 1]
    ELSE IF ret = "true" THEN [res EXCEPT !.successful = @ + 1]
    ELSE [res EXCEPT !.failed = @ + 1]

RECURSIVE CountResults(_, _)
\* lines 233-240: the counting loop over batch_results
CountResults(res, batch_results) ==
    IF batch_results = <<>> THEN res
    ELSE CountResults(CountOne(res, Head(batch_results)), Tail(batch_results))

\* mutant: the results of every task created so far counted again
BatchResultsFromStart(tasks, start, size) ==
    [j \in 1..Min(start + size, Len(tasks)) |-> tasks[j].ret]

\* batch_results, in the order of the batch
BatchResults(tasks, start, size) ==
    [j \in 1..Cardinality(Batch(Len(tasks), start, size)) |-> tasks[start + j].ret]

\* mutant: the delay test off by one: i + batch_size <= len(books)
MoreBatchesInclusive(start, size, n) == start + size <= n

\* line 243: is there a batch after this one
MoreBatches(start, size, n) == start + size < n

\* is task k done while a task before it in its batch is not
Overtakes(tasks, k) ==
    /\ tasks[k].pc = "done"
    /\ \E j \in 1..(k - 1) : tasks[j].window = tasks[k].window /\ tasks[j].pc # "done"

StartBatch ==
    /\ pc = "loop"
    /\ i < Len(books)
    /\ task' = [k \in DOMAIN task |->
                  IF k \in Batch(Len(books), i, batch_size) THEN Created(task[k], windows + 1)
                  ELSE task[k]]
    /\ pc' = "gather"
    /\ windows' = windows + 1
    /\ overtaken' = FALSE
    /\ UNCHANGED <<env, reports, exit_code, plan, content, books, batch_size, i, results, sleeps>>

TaskStart(k) ==
    /\ task[k].pc = "ready"
    /\ task' = Settle(task, k, FirstRequest(task[k], books[k].title))
    /\ UNCHANGED <<env, reports, exit_code, overtaken, plan, content, books, batch_size, i, pc, results, windows, sleeps>>

LookupReply1(k, resp) ==
    /\ task[k].pc = "lookup1"
    /\ task' = Settle(task, k, AfterLookup1(task[k], books[k].title, resp))
    /\ overtaken' = (overtaken \/ Overtakes(task', k))
    /\ UNCHANGED <<env, reports, exit_code, plan, content, books, batch_size, i, pc, results, windows, sleeps>>

LookupReply2(k, resp) ==
    /\ task[k].pc = "lookup2"
    /\ task' = Settle(task, k, AfterLookup2(task[k], resp))
    /\ overtaken' = (overtaken \/ Overtakes(task', k))
    /\ UNCHANGED <<env, reports, exit_code, plan, content, books, batch_size, i, pc, results, windows, sleeps>>

FormatReply(k, fr) ==
    /\ task[k].pc = "format"
    /\ task' = Settle(task, k, AfterFormat(task[k], fr))
    /\ overtaken' = (overtaken \/ Overtakes(task', k))
    /\ UNCHANGED <<env, reports, exit_code, plan, content, books, batch_size, i, pc, results, windows, sleeps>>

SubmitReply(k, sr) ==
    /\ task[k].pc = "submit"
    /\ task' = Settle(task, k, AfterSubmit(task[k], sr))
    /\ overtaken' = (overtaken \/ Overtakes(task', k))
    /\ UNCHANGED <<env, reports, exit_code, plan, content, books, batch_size, i, pc, results, windows, sleeps>>

\* mutant: a gather that lets a failure out, ending the loop
GatherDoneAborting ==
    /\ pc = "gather"
    /\ GatherComplete(task, Batch(Len(books), i, batch_size))
    /\ results' = CountResults(results, BatchResults(task, i, batch_size))
    /\ IF \E k \in Batch(Len(books), i, batch_size) : task[k].ret = "false"
       THEN pc' = "returned" /\ sleeps' = sleeps /\ i' = i
       ELSE IF MoreBatches(i, batch_size, Len(books))
            THEN pc' = "sleep" /\ sleeps' = sleeps + 1 /\ i' = i
            ELSE pc' = "loop" /\ sleeps' = sleeps /\ i' = i + batch_size
    /\ UNCHANGED <<env, reports, exit_code, overtaken, plan, content, books, batch_size,
                   task, windows>>

GatherDone ==
    /\ pc = "gather"
    /\ GatherComplete(task, Batch(Len(books), i, batch_size))
    /\ results' = CountResults(results, BatchResults(task, i, batch_size))
    /\ IF MoreBatches(i, batch_size, Len(books))
       THEN pc' = "sleep" /\ sleeps' = sleeps + 1 /\ i' = i
       ELSE pc' = "loop" /\ sleeps' = sleeps /\ i' = i + batch_size
    /\ UNCHANGED <<env, reports, exit_code, overtaken, plan, content, books, batch_size, task, windows>>

SleepDone ==
    /\ pc = "sleep"
    /\ pc' = "loop"
    /\ i' = i + batch_size
    /\ UNCHANGED <<env, reports, exit_code, overtaken, plan, content, books, batch_size, task, results, windows, sleeps>>

Return ==
    /\ pc = "loop"
    /\ i >= Len(books)
    /\ pc' = "returned"
    /\ UNCHANGED <<env, reports, exit_code, overtaken, plan, content, books, batch_size, i, task, results, windows, sleeps>>

-----------------------------------------------------------------------------
(* The inputs of a run *)

PlainTitle == <<"B", "o", "o">>
ColonTitle == <<"B", "o", ":", " ", "a">>
LetsTitle == LetsPrefix \o <<"B", "o">>

\* the k-th book of the input list: the three title shapes in turn
BookAt(k) ==
    [book_number |-> k,
     title |-> CASE k % 3 = 1 -> ColonTitle [] k % 3 = 2 -> LetsTitle [] OTHER -> PlainTitle]

RunLookupResponses ==
    { LookupResponse(200, "object", TRUE, <<MetaEntry, BookEntry(55)>>),
      NotFound, TransportError }

\* the two questions of the prompt's example: answers among the options,
\* numbers 1 and 2
ExampleQuestions ==
    << Question(1, <<"a", "b">>, <<"b">>), Question(2, <<"a", "b">>, <<"a", "b">>) >>

RunFormatResponses ==
    { FormatResponse("quiz", 55, ExampleQuestions), FormatResponse("not_json", 0, <<>>) }

RunSubmitResponses ==
    { SubmitResponse(201, "json"), SubmitResponse(201, "notjson"), SubmitResponse(500, "notjson") }

Init ==
    /\ env = [auth_token |-> TRUE, file_exists |-> TRUE]
    /\ reports = <<>>
    /\ exit_code = -1
    /\ overtaken = FALSE
    /\ plan = <<>>
    /\ content = <<>>
    /\ \E n \in 0..MaxBooks : books = [k \in 1..n |-> BookAt(k)]
    /\ batch_size \in 1..MaxBatch
    /\ i = 0
    /\ pc = "loop"
    /\ task = [k \in 1..Len(books) |-> NewTask]
    /\ results = [successful |-> 0, failed |-> 0]
    /\ windows = 0
    /\ sleeps = 0

Next ==
    \/ StartBatch
    \/ \E k \in DOMAIN task : TaskStart(k)
    \/ \E k \in DOMAIN task : \E resp \in RunLookupResponses : LookupReply1(k, resp)
    \/ \E k \in DOMAIN task : \E resp \in RunLookupResponses : LookupReply2(k, resp)
    \/ \E k \in DOMAIN task : \E fr \in RunFormatResponses : FormatReply(k, fr)
    \/ \E k \in DOMAIN task : \E sr \in RunSubmitResponses : SubmitReply(k, sr)
    \/ GatherDone
    \/ SleepDone
    \/ Return

Spec == Init /\ [][Next]_vars

\* the event loop runs every ready task and every external call returns or fails
FairSpec == Spec /\ WF_vars(Next)

-----------------------------------------------------------------------------
(* Claims about the run *)

Items == DOMAIN task

Terminal(k) == task[k].pc = "done"

TerminalStates == {"Unresolved", "FormatFailed", "SubmitFailed", "Submitted"}

\* the 0-based window of the k-th item
WindowOf(k) == (k - 1) \div batch_size

CeilDiv(n, b) == (n + b - 1) \div b

\* C1: when process_books_in_batches has returned, successful + failed equals
\* the number of items, for every list length, batch size and mix of outcomes.
C1_CountersSumToN ==
    pc = "returned" => results.successful + results.failed = Len(books)

\* a run of two full windows in which every item failed
C1_Witness ==
    /\ pc = "returned"
    /\ Len(books) >= 4
    /\ batch_size = 2
    /\ results.successful = 0
    /\ results.failed = Len(books)

FailsNow(k) == task[k].ret = "none" /\ task'[k].ret = "false"

C2_IsolatedStep ==
    \A k \in Items :
        FailsNow(k) =>
            /\ \A j \in Items \ {k} : task'[j] = task[j]
            /\ pc' = pc
            /\ results' = results

C2_RunGoesOn ==
    /\ pc # "returned" => ENABLED Next
    /\ pc = "returned" =>
          /\ \A k \in Items : Terminal(k) /\ task[k].term \in TerminalStates
          /\ results.failed = Cardinality({k \in Items : task[k].ret = "false"})
          /\ results.successful = Cardinality({k \in Items : task[k].ret = "true"})

\* C2: the step in which one item's pipeline fails (at resolve, format or
\* submit) changes no other item's task, the orchestrator's position or the
\* counters; the run can always take a further step until it has returned, and
\* at return every item is terminal in a state of its own pipeline and counted.
C2_FailureIsolation == [][C2_IsolatedStep]_vars /\ []C2_RunGoesOn

\* item 2 of a 3-item window failed in formatting; its siblings and the item
\* of the next window were submitted
C2_Witness ==
    /\ pc = "returned"
    /\ batch_size = 3
    /\ Len(books) >= 4
    /\ task[2].term = "FormatFailed"
    /\ task[1].term = "Submitted"
    /\ task[3].term = "Submitted"
    /\ task[4].term = "Submitted"
    /\ results.failed = 1

C3_AllTerminal == \A k \in Items : Terminal(k)

C3_TerminalIsFinal == \A k \in Items : Terminal(k) => task'[k] = task[k]

C3_OnceOnly ==
    \A k \in Items :
        /\ task[k].created <= 1
        /\ Terminal(k) <=> task[k].term # "none"
        /\ Terminal(k) => task[k].term \in TerminalStates /\ task[k].created = 1

\* C3: under fair scheduling every item eventually is terminal; a task is
\* created at most once per item, a terminal item is in exactly one of the four
\* terminal states, and a terminal task never changes again.
C3_EachItemTerminatesOnce ==
    <>C3_AllTerminal /\ [][C3_TerminalIsFinal]_vars /\ []C3_OnceOnly

\* all items terminal, in different terminal states
C3_Witness ==
    /\ Len(books) >= 3
    /\ C3_AllTerminal
    /\ task[1].term = "Unresolved"
    /\ task[2].term = "SubmitFailed"
    /\ task[3].term = "Submitted"

Started(k) == task[k].pc \notin {"idle", "ready"}

\* C4: whenever a pipeline has started, every pipeline of every earlier window
\* is terminal.
C4_WindowBarrier ==
    \A k \in Items : Started(k) =>
        \A j \in Items : WindowOf(j) < WindowOf(k) => Terminal(j)

\* in the second window, the later item is terminal while the earlier one is
\* still awaiting its lookup
C4_Witness ==
    \E k \in Items :
        /\ k + 1 \in Items
        /\ WindowOf(k) = 1
        /\ WindowOf(k + 1) = 1
        /\ task[k].pc = "lookup1"
        /\ Terminal(k + 1)

C5_Windows ==
    /\ pc = "returned" => windows = CeilDiv(Len(books), batch_size)
    /\ \A k \in Items : task[k].pc # "idle" => task[k].window = WindowOf(k) + 1
    /\ pc = "sleep" => \E k \in Items : task[k].pc = "idle"

\* C5 as stated: at return the delay was applied ceil(N/B) - 1 times.
C5_Original ==
    /\ C5_Windows
    /\ pc = "returned" => sleeps = CeilDiv(Len(books), batch_size) - 1

\* C5, amended: ceil(N/B) windows, items assigned to them consecutively, the
\* delay only while items remain, and at return ceil(N/B) - 1 delays when
\* N >= 1 and none when N = 0.
C5_WindowsAndDelays ==
    /\ C5_Windows
    /\ pc = "returned" =>
          sleeps = IF Len(books) = 0 THEN 0
                   ELSE CeilDiv(Len(books), batch_size) - 1

\* two full windows: one delay
C5_Witness ==
    /\ pc = "returned"
    /\ Len(books) = 4
    /\ batch_size = 2
    /\ windows = 2
    /\ sleeps = 1

\* C6: the formatter is called at most once per item and only with a match
\* returned by the resolver; create_quiz is called at most once per item and
\* only with quiz_data built from a formatter result.
C6_StageOrderSingleAttempt ==
    \A k \in Items :
        /\ task[k].formatCalls <= 1
        /\ task[k].submitCalls <= 1
        /\ task[k].formatCalls = 1 <=> IsBook(task[k].book_info)
        /\ task[k].submitCalls = 1 <=> task[k].quiz_data.built
        /\ task[k].submitCalls = 1 => task[k].formatCalls = 1
        /\ task[k].pc \in {"idle", "ready", "lookup1", "lookup2"} => task[k].formatCalls = 0
        /\ task[k].pc = "format" => task[k].submitCalls = 0

\* a submit failure and a format failure, each after a single call
C6_Witness ==
    /\ Len(books) >= 2
    /\ task[1].term = "SubmitFailed"
    /\ task[1].submitCalls = 1
    /\ task[2].term = "FormatFailed"
    /\ task[2].formatCalls = 1
    /\ task[2].submitCalls = 0

\* C7: a terminal item returned True exactly when its resolve returned a
\* match, its format call returned a quiz and its submit call received status
\* 200 or 201; and the successful counter counts exactly those items.
C7_SuccessIffSubmitted2xx ==
    /\ \A k \in Items : Terminal(k) =>
          (task[k].ret = "true" <=>
              /\ IsBook(task[k].book_info)
              /\ task[k].quiz_data.built
              /\ task[k].submitStatus \in {200, 201})
    /\ pc = "returned" =>
          results.successful =
              Cardinality({k \in Items : task[k].submitStatus \in {200, 201}})

-----------------------------------------------------------------------------
(* One get_book_by_title call *)

TitlePieces == { LetsPrefix, <<"B">>, <<":">>, <<" ">> }

RECURSIVE PieceTitles(_)
\* the concatenations of at most n pieces
PieceTitles(n) ==
    IF n = 0 THEN {<<>>}
    ELSE LET shorter == PieceTitles(n - 1)
         IN  shorter \cup {t \o p : t \in shorter, p \in TitlePieces}

\* lines 73 and 78: a parsed title is stripped and its whitespace runs are
\* single spaces
IsParsedTitle(t) ==
    /\ Strip(t) = t
    /\ \A j \in 1..Len(t) : IsSpace(t[j]) => t[j] = " " /\ (j > 1 => ~IsSpace(t[j - 1]))

\* "Let's Build a Boat"
BuildABoat == <<"B", "u", "i", "l", "d", " ", "a", " ", "B", "o", "a", "t">>
LetsBuildABoat == LetsPrefix \o BuildABoat

\* a title with an underscore and a colon
UnderscoreTitle == <<"B", "_", ":">>

ResolveTitles ==
    {t \in PieceTitles(MaxPieces) : IsParsedTitle(t)} \cup {LetsBuildABoat, UnderscoreTitle}

ResultEntries == {BookEntry(55), BookEntry(7), MetaEntry, ScalarEntry}

RECURSIVE ResultLists(_)
\* the result lists of at most n elements
ResultLists(n) ==
    IF n = 0 THEN {<<>>}
    ELSE LET shorter == ResultLists(n - 1)
         IN  shorter \cup {Append(r, e) : r \in shorter, e \in ResultEntries}

LookupResponses ==
    {TransportError, NotFound, ServerError, LookupResponse(200, "notjson", FALSE, <<>>)}
    \cup {LookupResponse(200, "object", ok, res) :
              ok \in BOOLEAN, res \in ResultLists(MaxResults)}

ResolveInit ==
    /\ env = [auth_token |-> TRUE, file_exists |-> TRUE]
    /\ reports = <<>>
    /\ exit_code = -1
    /\ overtaken = FALSE
    /\ plan = <<>>
    /\ content = <<>>
    /\ \E t \in ResolveTitles : books = <<[book_number |-> 1, title |-> t]>>
    /\ batch_size = 1
    /\ i = 0
    /\ pc = "gather"
    /\ task = <<Created(NewTask, 1)>>
    /\ results = [successful |-> 0, failed |-> 0]
    /\ windows = 1
    /\ sleeps = 0

ResolveNext ==
    \/ TaskStart(1)
    \/ \E resp \in LookupResponses : LookupReply1(1, resp)
    \/ \E resp \in LookupResponses : LookupReply2(1, resp)

ResolveSpec == ResolveInit /\ [][ResolveNext]_vars

-----------------------------------------------------------------------------
(* Claims about get_book_by_title *)

\* the character a %XX escape stands for
CharOfHex(h) ==
    CASE h = "20" -> " " [] h = "0A" -> "\n" [] h = "27" -> "'" [] h = "3A" -> ":"
      [] h = "5B" -> "[" [] h = "5D" -> "]" [] h = "22" -> "\"" [] OTHER -> "%"

RECURSIVE Unquote(_)
\* the title parameter as the catalog decodes it
Unquote(q) ==
    IF q = <<>> THEN <<>>
    ELSE IF Head(q) = "%" THEN <<CharOfHex(q[2])>> \o Unquote(DropFirst(q, 2))
    ELSE <<Head(q)>> \o Unquote(Tail(q))

TheTitle == books[1].title

\* C9: the first query the catalog receives is the title without one leading
\* "Let's " when the title begins with it, and the title itself otherwise.
C9_FirstQueryStripsLets ==
    task[1].queries # <<>> =>
        LET query == Unquote(task[1].queries[1])
        IN  IF Len(TheTitle) >= 6 /\ \A j \in 1..6 : TheTitle[j] = LetsPrefix[j]
            THEN LetsPrefix \o query = TheTitle
            ELSE query = TheTitle

\* "Let's Let's B": the query still begins with "Let's "
C9_Witness ==
    /\ TheTitle = LetsPrefix \o LetsPrefix \o <<"B">>
    /\ task[1].queries # <<>>
    /\ Unquote(task[1].queries[1]) = LetsPrefix \o <<"B">>

\* position of the first element of a result list that is a dict with 'nid'
FirstValidPos(res) ==
    CHOOSE j \in 1..Len(res) :
        res[j].kind = "book" /\ \A m \in 1..(j - 1) : res[m].kind # "book"

HasValid(res) == \E j \in 1..Len(res) : res[j].kind = "book"

C10_FirstEntryReturned(r) ==
    /\ task[1].pc = "format"
    /\ task[1].book_info = r.result[FirstValidPos(r.result)]

\* C10 as stated: after a status-200 response whose result list holds a valid
\* entry, the resolver has returned the first valid entry.
C10_Original ==
    LET r == task[1].lookup
    IN  (r.status = 200 /\ r.body = "object" /\ HasValid(r.result))
            => C10_FirstEntryReturned(r)

\* C10, amended: after a status-200 response whose success flag is true and
\* whose result list holds a valid entry, the resolver has returned the first
\* valid entry of the list and sends no further request.
C10_FirstMatchWins ==
    LET r == task[1].lookup
    IN  (r.status = 200 /\ r.body = "object" /\ r.success /\ HasValid(r.result))
            => C10_FirstEntryReturned(r) /\ ~ENABLED ResolveNext

\* two books in the list: the first one is returned
C10_Witness ==
    /\ task[1].lookup.result = <<BookEntry(7), BookEntry(55)>>
    /\ task[1].lookup.success
    /\ task[1].book_info = BookEntry(7)
    /\ Len(task[1].queries) = 1

\* a lookup that succeeded without a valid entry: status 404, or status 200
\* with a JSON object whose result list holds no entry with 'nid'
YieldsNothing(r) ==
    \/ r.status = 404
    \/ r.status = 200 /\ r.body = "object" /\ ~HasValid(r.result)

QueriesDiffer == SecondQuery(TheTitle) # FirstQuery(TheTitle)

\* the step in which the first response arrives
FirstResponseStep == task[1].pc = "lookup1" /\ task'[1].pc # "lookup1"

C11_FallbackStep ==
    (FirstResponseStep /\ YieldsNothing(task'[1].lookup)) =>
        IF QueriesDiffer
        THEN /\ task'[1].pc = "lookup2"
             /\ task'[1].queries = <<FirstQuery(TheTitle), SecondQuery(TheTitle)>>
        ELSE /\ task'[1].pc = "done"
             /\ task'[1].term = "Unresolved"
             /\ Len(task'[1].queries) = 1

C11_SecondResponseStep ==
    (task[1].pc = "lookup2" /\ task'[1].pc # "lookup2") =>
        /\ task'[1].queries = task[1].queries
        /\ task'[1].pc \in {"format", "done"}

C11_AtMostTwo ==
    /\ Len(task[1].queries) <= 2
    /\ task[1].pc = "lookup2" => Len(task[1].queries) = 2 /\ QueriesDiffer
    /\ task[1].pc = "done" =>
          /\ task[1].term = "Unresolved"
          /\ task[1].book_info = None
          /\ ~ENABLED ResolveNext

\* C11: when the first lookup answers 404, or 200 with no valid entry, the
\* resolver sends one second request, with the simplified query, exactly when
\* that query differs from the first one; a title never gets more than two
\* requests, the second response is followed by none, and a call in which no
\* attempt gave a valid entry ends Unresolved.
C11_FallbackLookup ==
    /\ [][C11_FallbackStep]_vars
    /\ [][C11_SecondResponseStep]_vars
    /\ []C11_AtMostTwo

\* "B:" answered 404: the second request, for "B", is in flight
C11_Witness ==
    /\ TheTitle = <<"B", ":">>
    /\ task[1].pc = "lookup2"
    /\ task[1].lookup = NotFound
    /\ Unquote(task[1].queries[2]) = <<"B">>

\* a title the simplification leaves alone, answered 404: one request only
C11_WitnessSame ==
    /\ TheTitle = <<"B", " ", "B">>
    /\ task[1].pc = "done"
    /\ task[1].lookup = NotFound
    /\ Len(task[1].queries) = 1

\* C12 as stated: for "Let's Build a Boat" the first query is "Build a Boat",
\* and after a first lookup without a valid entry a second request with the
\* simplified query is sent, Unresolved being returned only after both.
C12_Original ==
    TheTitle = LetsBuildABoat =>
        /\ task[1].queries # <<>> => Unquote(task[1].queries[1]) = BuildABoat
        /\ task[1].term = "Unresolved" =>
              /\ Len(task[1].queries) = 2
              /\ Unquote(task[1].queries[2]) = BuildABoat

\* C12, amended: for "Let's Build a Boat" the first query is "Build a Boat";
\* the simplified query is the same string, so no second request is sent and
\* Unresolved is returned after the first lookup gave no valid entry.
C12_BuildABoat ==
    TheTitle = LetsBuildABoat =>
        /\ task[1].queries # <<>> => task[1].queries = <<Quote(BuildABoat)>>
        /\ Unquote(Quote(BuildABoat)) = BuildABoat
        /\ task[1].pc # "lookup2"
        /\ (task[1].pc \notin {"ready", "lookup1"} /\ ~IsBook(task[1].book_info)) =>
              task[1].pc = "done" /\ task[1].term = "Unresolved"

\* "Let's Build a Boat" answered 404: Unresolved after one request
C12_Witness ==
    /\ TheTitle = LetsBuildABoat
    /\ task[1].lookup = NotFound
    /\ task[1].term = "Unresolved"
    /\ Len(task[1].queries) = 1

\* C13: after a lookup attempt that ended in a transport exception or in a
\* status other than 200 and 404, no further request is sent for the title
\* and the title is Unresolved.
C13_ErrorNotRetried ==
    task[1].lookup.status \notin {-1, 200, 404} =>
        /\ task[1].pc = "done"
        /\ task[1].term = "Unresolved"
        /\ ~ENABLED ResolveNext

-----------------------------------------------------------------------------
(* One process_single_book task, from its creation to the counting loop *)

ItemTitles == {PlainTitle, ColonTitle, LetsTitle, LetsBuildABoat}

\* question lists that break the quiz invariant: no correct answer, a correct
\* answer that is no option, a number used twice, numbers going down
NoCorrectAnswer == << Question(1, <<"a", "b">>, <<>>) >>
AnswerNotAnOption == << Question(1, <<"a", "b">>, <<"c">>) >>
NumberTwice == << Question(1, <<"a", "b">>, <<"a">>), Question(1, <<"a", "b">>, <<"b">>) >>
NumbersDecreasing == << Question(2, <<"a", "b">>, <<"a">>), Question(1, <<"a", "b">>, <<"b">>) >>

ItemFormatResponses ==
    { FormatResponse("api_error", 0, <<>>), FormatResponse("not_json", 0, <<>>),
      FormatResponse("bad_schema", 0, <<>>) }
    \cup { FormatResponse("quiz", id, qs) :
              id \in {55, 7},
              qs \in {ExampleQuestions, <<>>, NoCorrectAnswer, AnswerNotAnOption,
                      NumberTwice, NumbersDecreasing} }

ItemSubmitResponses ==
    { SubmitResponse(st, b) : st \in {200, 201, 400, 500}, b \in {"json", "notjson"} }
    \cup { SubmitResponse(0, "none") }

\* the answers of the lookup, and entries whose nid is zero or negative
ItemLookupResponses ==
    LookupResponses
    \cup { LookupResponse(200, "object", TRUE, <<BookEntry(0)>>),
           LookupResponse(200, "object", TRUE, <<MetaEntry, BookEntry(-3)>>) }

ItemInit ==
    /\ env = [auth_token |-> TRUE, file_exists |-> TRUE]
    /\ reports = <<>>
    /\ exit_code = -1
    /\ overtaken = FALSE
    /\ plan = <<>>
    /\ content = <<>>
    /\ \E t \in ItemTitles : books = <<[book_number |-> 1, title |-> t]>>
    /\ batch_size = 1
    /\ i = 0
    /\ pc = "gather"
    /\ task = <<Created(NewTask, 1)>>
    /\ results = [successful |-> 0, failed |-> 0]
    /\ windows = 1
    /\ sleeps = 0

ItemNext ==
    \/ TaskStart(1)
    \/ \E resp \in ItemLookupResponses : LookupReply1(1, resp)
    \/ \E resp \in ItemLookupResponses : LookupReply2(1, resp)
    \/ \E fr \in ItemFormatResponses : FormatReply(1, fr)
    \/ \E sr \in ItemSubmitResponses : SubmitReply(1, sr)
    \/ GatherDone
    \/ Return

ItemSpec == ItemInit /\ [][ItemNext]_vars

-----------------------------------------------------------------------------
(* Claims about one item *)

Range(seq) == {seq[j] : j \in DOMAIN seq}

\* the step in which the item ends with every lookup answered 404
BothNotFoundStep ==
    /\ task[1].pc \in {"lookup1", "lookup2"}
    /\ task[1].pc = "lookup2" => task[1].lookup.status = 404
    /\ task'[1].lookup.status = 404
    /\ task'[1].pc \notin {"lookup1", "lookup2"}

C14_NotFoundStep ==
    BothNotFoundStep =>
        /\ task'[1].pc = "done"
        /\ task'[1].ret = "false"
        /\ task'[1].term = "Unresolved"
        /\ "Book not found" \in Range(task'[1].log)
        /\ task'[1].formatCalls = 0
        /\ task'[1].submitCalls = 0

C14_UnresolvedIsFinal == task[1].term = "Unresolved" => task'[1] = task[1]

C14_CountedOnce ==
    task[1].term = "Unresolved" =>
        /\ task[1].formatCalls = 0
        /\ task[1].submitCalls = 0
        /\ results = [successful |-> 0,
                      failed |-> IF pc = "gather" THEN 0 ELSE 1]

\* C14: when every lookup of an item is answered 404 (the first and, when it
\* is sent, the simplified one), the item fails at the resolve stage with a
\* logged "Book not found", neither the formatter nor create_quiz is ever
\* called for it, and the counting loop adds exactly one to "failed".
C14_NotFoundFailure ==
    /\ [][C14_NotFoundStep]_vars
    /\ [][C14_UnresolvedIsFinal]_vars
    /\ []C14_CountedOnce

\* "Bo: a" and "Bo a" both answered 404, the run returned with failed = 1
C14_Witness ==
    /\ pc = "returned"
    /\ TheTitle = ColonTitle
    /\ Len(task[1].queries) = 2
    /\ task[1].lookup = NotFound
    /\ task[1].log = <<"Book not found", "Could not find book info">>
    /\ results.failed = 1

\* section 3 of the specification: correctAnswers non-empty and among the
\* options, numbers increasing
StructuredQuizInvariant(qs) ==
    /\ \A j \in DOMAIN qs :
          /\ qs[j].correctAnswers # <<>>
          /\ Range(qs[j].correctAnswers) \subseteq Range(qs[j].options)
    /\ \A j \in DOMAIN qs : \A m \in DOMAIN qs : j < m => qs[j].questionNo < qs[m].questionNo

\* C15: create_quiz is called only with questions that satisfy the quiz
\* invariant; an item whose formatter result breaks it ends FormatFailed.
C15_InvalidQuizNotSubmitted ==
    (task[1].formatCalls = 1 /\ task[1].pc # "format"
        /\ ~StructuredQuizInvariant(task[1].quiz_data.questions)) =>
        /\ task[1].term = "FormatFailed"
        /\ task[1].submitCalls = 0

-----------------------------------------------------------------------------
(* parse_multiple_books *)

BookWord == <<"B", "o", "o", "k">>

NotQuote(c) == c # "\""

\* the least element of a set of positions, Len(text) + 1 for the empty set
FirstOf(hits, text) ==
    IF hits = {} THEN Len(text) + 1
    ELSE CHOOSE j \in hits : \A m \in hits : j <= m

\* the first position >= from whose character is in cs
FirstIn(text, from, cs) == FirstOf({j \in from..Len(text) : text[j] \in cs}, text)

\* the first position >= from whose character is not in cs: the end of a run
FirstNotIn(text, from, cs) == FirstOf({j \in from..Len(text) : text[j] \notin cs}, text)

AllSpace(text, a, b) == \A j \in a..b : IsSpace(text[j])

\* line 58: can text[c..q-1] be read as \s+ [^\[\n]+ \s+ (no "[" is in it)
TitleFits(text, c, q) ==
    \E u \in (c + 1)..(q - 2) : \E v \in u..(q - 2) :
        /\ AllSpace(text, c, u - 1)
        /\ \A j \in u..v : text[j] # "\n"
        /\ AllSpace(text, v + 1, q - 1)

\* line 58: the last position of a match of
\*   Book\s+\d+\s+[^\[\n]+\s+\[[^\]]+\]
\* that begins at p, 0 when there is none. The runs \s+ and \d+ after "Book"
\* are maximal, "[" is the first one after the number, "]" the first after it.
HeaderEnd(text, p) ==
    LET a == p + 4
        b == FirstNotIn(text, a, Spaces)
        c == FirstNotIn(text, b, Digits)
        q == FirstIn(text, c, {"["})
        r == FirstIn(text, q + 1, {"]"})
    IN  IF /\ SubSeq(text, p, Min(p + 3, Len(text))) = BookWord
           /\ b > a
           /\ c > b
           /\ q <= Len(text)
           /\ TitleFits(text, c, q)
           /\ r > q + 1
           /\ r <= Len(text)
        THEN r ELSE 0

RECURSIVE Sections(_, _)
\* line 61: re.split(book_pattern, content) from position `from` on: the text
\* before the leftmost match, the match, and the split of what follows it
Sections(text, from) ==
    LET starts == {p \in from..Len(text) : HeaderEnd(text, p) # 0}
    IN  IF starts = {} THEN <<SubSeq(text, from, Len(text))>>
        ELSE LET p == CHOOSE x \in starts : \A y \in starts : x <= y
                 r == HeaderEnd(text, p)
             IN  <<SubSeq(text, from, p - 1), SubSeq(text, p, r)>>
                 \o Sections(text, r + 1)

RECURSIVE CollapseSpaces(_)
\* line 78: re.sub(r'\s+', ' ', title)
CollapseSpaces(s) ==
    IF s = <<>> THEN <<>>
    ELSE IF IsSpace(Head(s))
         THEN <<" ">> \o CollapseSpaces(SubSeq(s, FirstNotIn(s, 1, Spaces), Len(s)))
         ELSE <<Head(s)>> \o CollapseSpaces(Tail(s))

\* line 70: group 2 of the header pattern, for the text between the number
\* and "[": the leading \s+ is greedy and the title lazy, so the title runs
\* from the first to the last non-space character; in a text that is all
\* whitespace it is the one character before the last
TitleGroup(between) ==
    IF Strip(between) # <<>> THEN Strip(between)
    ELSE SubSeq(between, Len(between) - 1, Len(between) - 1)

\* lines 70-74: re.match(r'Book\s+(\d+)\s+([^\[]+?)\s+\[([^\]]+)\]', book_header)
HeaderMatch(header) ==
    LET a == 5
        b == FirstNotIn(header, a, Spaces)
        c == FirstNotIn(header, b, Digits)
        q == FirstIn(header, c, {"["})
        r == FirstIn(header, q + 1, {"]"})
        between == SubSeq(header, c, q - 1)
    IN  IF /\ SubSeq(header, 1, Min(4, Len(header))) = BookWord
           /\ b > a
           /\ c > b
           /\ q <= Len(header)
           /\ Len(between) >= 3
           /\ IsSpace(between[1])
           /\ IsSpace(between[Len(between)])
           /\ r > q + 1
           /\ r <= Len(header)
        THEN [matched |-> TRUE,
              number |-> SubSeq(header, b, c - 1),
              title |-> TitleGroup(between),
              author |-> SubSeq(header, q + 1, r - 1)]
        ELSE [matched |-> FALSE, number |-> <<>>, title |-> <<>>, author |-> <<>>]

\* lines 66-83: the BookData of one header and the text after it
BookOf(section_header, section_body) ==
    LET book_header == Strip(section_header)
        book_content == Strip(section_body)
        header_match == HeaderMatch(book_header)
    IN  [book_number |-> header_match.number,
         title |-> CollapseSpaces(Strip(header_match.title)),
         author |-> SelectSeq(Strip(header_match.author), NotQuote),
         quiz_content |-> book_header \o <<"\n">> \o book_content]

RECURSIVE BooksFrom(_, _)
\* lines 64-83: the loop `for i in range(1, len(sections), 2)`, i 0-based
BooksFrom(sections, idx) ==
    IF idx >= Len(sections) THEN <<>>
    ELSE (IF idx + 1 < Len(sections) /\ HeaderMatch(Strip(sections[idx + 1])).matched
          THEN <<BookOf(sections[idx + 1], sections[idx + 2])>>
          ELSE <<>>)
         \o BooksFrom(sections, idx + 2)

\* lines 52-86
ParseMultipleBooks(text) == BooksFrom(Sections(text, 1), 1)

-----------------------------------------------------------------------------
(* Documents *)

\* a section as its writer meant it: kind "ok" (a header of the documented
\* shape), "noclose" (closing bracket missing), "badnum" (a letter where the
\* number belongs); raw: the title as typed
SectionKinds == {"ok", "noclose", "badnum"}
SectionTitles == { <<"B", "o">>, <<"a", " ", " ", "B">> }
SectionAuthor == <<"a">>
SectionBody == <<"a", "a">>

\* the number of the j-th section of a document
NumberOf(j) == <<CASE j = 1 -> "1" [] j = 2 -> "2" [] j = 3 -> "3" [] j = 4 -> "4" [] OTHER -> "5">>

\* extract_text_from_docx, lines 46-47: one paragraph for the header and one
\* for the quiz text
HeaderLine(sec, j) ==
    BookWord \o <<" ">>
    \o (IF sec.kind = "badnum" THEN <<"a">> ELSE NumberOf(j))
    \o <<" ">> \o sec.raw \o <<" ", "[">> \o SectionAuthor
    \o (IF sec.kind = "noclose" THEN <<>> ELSE <<"]">>)

RECURSIVE RenderFrom(_, _)
\* lines 46-47: the paragraphs joined by "\n"
RenderFrom(p, j) ==
    IF j > Len(p) THEN <<>>
    ELSE (IF j > 1 THEN <<"\n">> ELSE <<>>)
         \o HeaderLine(p[j], j) \o <<"\n">> \o SectionBody
         \o RenderFrom(p, j + 1)

Render(p) == RenderFrom(p, 1)

RECURSIVE Plans(_)
Plans(n) ==
    IF n = 0 THEN {<<>>}
    ELSE LET shorter == Plans(n - 1)
         IN  shorter \cup
             {Append(p, [kind |-> k, raw |-> t]) :
                  p \in shorter, k \in SectionKinds, t \in SectionTitles}

ParseInit ==
    /\ env = [auth_token |-> TRUE, file_exists |-> TRUE]
    /\ reports = <<>>
    /\ exit_code = -1
    /\ overtaken = FALSE
    /\ plan \in Plans(MaxSections)
    /\ content = Render(plan)
    /\ books = <<>>
    /\ batch_size = 3
    /\ i = 0
    /\ pc = "parse"
    /\ task = <<>>
    /\ results = [successful |-> 0, failed |-> 0]
    /\ windows = 0
    /\ sleeps = 0

\* line 263: books = self.parse_multiple_books(content)
ParseBooks ==
    /\ pc = "parse"
    /\ books' = ParseMultipleBooks(content)
    /\ pc' = "parsed"
    /\ task' = [k \in 1..Len(books') |-> NewTask]
    /\ UNCHANGED <<env, reports, exit_code, overtaken, plan, content, batch_size, i, results, windows, sleeps>>

ParseNext == ParseBooks

ParseSpec == ParseInit /\ [][ParseNext]_vars

-----------------------------------------------------------------------------
(* Claims about parse_multiple_books *)

\* positions of the well-formed sections of a plan, in order
RECURSIVE WellFormedFrom(_, _)
WellFormedFrom(p, j) ==
    IF j > Len(p) THEN <<>>
    ELSE (IF p[j].kind = "ok" THEN <<j>> ELSE <<>>) \o WellFormedFrom(p, j + 1)

WellFormed(p) == WellFormedFrom(p, 1)

\* the title of a section with its whitespace runs written as one space
TitleAsMeant(raw) == IF raw = <<"a", " ", " ", "B">> THEN <<"a", " ", "B">> ELSE raw

\* the plan with its j-th header written without the closing bracket
WithoutClose(p, j) == [p EXCEPT ![j].kind = "noclose"]

\* C8: the parsed list has one item per well-formed section, in document
\* order, each with that section's number, title and author; and writing one
\* well-formed header without its closing bracket yields one item fewer.
C8_OneItemPerWellFormedHeader ==
    pc = "parsed" =>
        LET wf == WellFormed(plan)
        IN  /\ Len(books) = Len(wf)
            /\ \A j \in 1..Len(wf) :
                  /\ books[j].book_number = NumberOf(wf[j])
                  /\ books[j].title = TitleAsMeant(plan[wf[j]].raw)
                  /\ books[j].author = SectionAuthor
            /\ \A j \in 1..Len(plan) :
                  plan[j].kind = "ok" =>
                      Len(ParseMultipleBooks(Render(WithoutClose(plan, j)))) = Len(books) - 1

-----------------------------------------------------------------------------
(* main() and process_all_books *)

MaxMainSections == 4

\* line 271: process_books_in_batches(books, batch_size=3)
BatchSizeOfMain == 3

\* the exit status of `asyncio.run(main())` at the end of the script: main
\* returns None and lets no exception out
MainExitStatus == 0

\* the sections of main's documents: "Book <j> B: [a]" and "Book a B: [a]"
MainSections ==
    { [kind |-> "ok", raw |-> <<"B", ":">>], [kind |-> "badnum", raw |-> <<"B", ":">>] }

\* the catalog's and the formatter's answers in a run of main
MainLookupResponses ==
    { LookupResponse(200, "object", TRUE, <<MetaEntry, BookEntry(55)>>), NotFound }

MainFormatResponses ==
    { FormatResponse("quiz", 55, ExampleQuestions), FormatResponse("not_json", 0, <<>>) }

MainSubmitResponses == { SubmitResponse(201, "json"), SubmitResponse(500, "notjson") }

RECURSIVE MainPlans(_)
MainPlans(n) ==
    IF n = 0 THEN {<<>>}
    ELSE LET shorter == MainPlans(n - 1)
         IN  shorter \cup {Append(p, sec) : p \in shorter, sec \in MainSections}

\* mutant: a constructor that does not look at AUTH_TOKEN
ConstructorNeverRaises(e) == FALSE

\* lines 34-40: __init__ raises ValueError when AUTH_TOKEN is not set
ConstructorRaises(e) == ~e.auth_token

\* lines 306-310: the lines written for one book
ReportEntry(book) ==
    [book_number |-> book.book_number, title |-> book.title, author |-> book.author,
     status |-> "Processing attempted"]

\* mutant: the books written last to first
ReportEntriesReversed(bs) == [k \in 1..Len(bs) |-> ReportEntry(bs[Len(bs) + 1 - k])]

\* lines 306-310: `for book in books`
ReportEntries(bs) == [k \in 1..Len(bs) |-> ReportEntry(bs[k])]

\* lines 293-313: the text of the report, without its dates and file name
Report(bs, res) ==
    [total |-> Len(bs), successful |-> res.successful, failed |-> res.failed,
     entries |-> ReportEntries(bs)]

\* mutant: the report written only when some book succeeded
WriteReportIfAnySucceeded(files, bs, res) ==
    IF res.successful > 0 THEN Append(files, Report(bs, res)) ELSE files

\* lines 281-318: save_results_to_file writes one file
WriteReport(files, bs, res) == Append(files, Report(bs, res))

MainInit ==
    /\ env \in [auth_token : BOOLEAN, file_exists : BOOLEAN]
    /\ reports = <<>>
    /\ exit_code = -1
    /\ overtaken = FALSE
    /\ plan \in MainPlans(MaxMainSections)
    /\ ~env.file_exists => plan = <<>>
    /\ content = <<>>
    /\ books = <<>>
    /\ batch_size = BatchSizeOfMain
    /\ i = 0
    /\ pc = "main"
    /\ task = <<>>
    /\ results = [successful |-> 0, failed |-> 0]
    /\ windows = 0
    /\ sleeps = 0

\* lines 322-324, 33-40 and 251-260: the constructor, the test for the file
\* and the extraction of its text
StartMain ==
    /\ pc = "main"
    /\ IF ConstructorRaises(env) \/ ~env.file_exists
       THEN content' = content /\ pc' = "finished"
       ELSE /\ content' = Render(plan)
            /\ pc' = IF content' = <<>> THEN "finished" ELSE "parse"
    /\ UNCHANGED <<env, reports, exit_code, overtaken, plan, books, batch_size, i, task,
                   results, windows, sleeps>>

\* lines 266-271: no books, or the call of process_books_in_batches
BeginBatches ==
    /\ pc = "parsed"
    /\ pc' = IF books = <<>> THEN "finished" ELSE "loop"
    /\ UNCHANGED <<env, reports, exit_code, overtaken, plan, content, books, batch_size, i,
                   task, results, windows, sleeps>>

\* lines 273-276: the report, after process_books_in_batches returned
SaveResults ==
    /\ pc = "returned"
    /\ reports' = WriteReport(reports, books, results)
    /\ pc' = "finished"
    /\ UNCHANGED <<env, exit_code, overtaken, plan, content, books, batch_size, i, task,
                   results, windows, sleeps>>

\* lines 325-329: main is over, with or without a logged exception
ExitProcess ==
    /\ pc = "finished"
    /\ pc' = "exit"
    /\ exit_code' = MainExitStatus
    /\ UNCHANGED <<env, reports, overtaken, plan, content, books, batch_size, i, task,
                   results, windows, sleeps>>

MainNext ==
    \/ StartMain
    \/ ParseBooks
    \/ BeginBatches
    \/ StartBatch
    \/ \E k \in DOMAIN task : TaskStart(k)
    \/ \E k \in DOMAIN task : \E resp \in MainLookupResponses : LookupReply1(k, resp)
    \/ \E k \in DOMAIN task : \E resp \in MainLookupResponses : LookupReply2(k, resp)
    \/ \E k \in DOMAIN task : \E fr \in MainFormatResponses : FormatReply(k, fr)
    \/ \E k \in DOMAIN task : \E sr \in MainSubmitResponses : SubmitReply(k, sr)
    \/ GatherDone
    \/ SleepDone
    \/ Return
    \/ SaveResults
    \/ ExitProcess

MainSpec == MainInit /\ [][MainNext]_vars

-----------------------------------------------------------------------------
(* Claims about main() *)

\* the parser has run on the document's text
Parsed == content # <<>> /\ pc \notin {"main", "parse"}

C16_AfterAllWindows ==
    /\ Len(reports) <= 1
    /\ reports # <<>> =>
          /\ pc \in {"finished", "exit"}
          /\ \A k \in Items : Terminal(k)
          /\ windows = CeilDiv(Len(books), batch_size)
          /\ reports[1].total = Len(books)
          /\ reports[1].successful = results.successful
          /\ reports[1].failed = results.failed
          /\ results.successful + results.failed = Len(books)

\* C16 as stated: a run that parsed its document writes exactly one report,
\* after all windows and never before, also when every item failed.
C16_Original ==
    /\ C16_AfterAllWindows
    /\ (pc = "exit" /\ Parsed) => Len(reports) = 1

\* C16, amended: a run that parsed at least one item out of its document
\* writes exactly one report, after all windows and never before, also when
\* every item failed; a run whose document gives no item writes none.
C16_OneReportAfterAllWindows ==
    /\ C16_AfterAllWindows
    /\ (pc = "exit" /\ Parsed) => Len(reports) = IF books = <<>> THEN 0 ELSE 1

\* two windows, every item failed, one report
C16_Witness ==
    /\ pc = "exit"
    /\ Len(books) = 4
    /\ windows = 2
    /\ results = [successful |-> 0, failed |-> 4]
    /\ Len(reports) = 1
    /\ reports[1].failed = 4

\* C17: the entries of two items that ended differently (submitted, or failed
\* at different stages) differ in what they say about the outcome, and the
\* entry of a resolved item shows its catalog id.
C17_ReportCarriesOutcome ==
    reports # <<>> =>
        LET entries == reports[1].entries
        IN  /\ \A j \in Items : \A k \in Items :
                  task[j].term # task[k].term => entries[j].status # entries[k].status
            /\ \A k \in Items :
                  IsBook(task[k].book_info) => "catalog_id" \in DOMAIN entries[k]

\* a condition that keeps every item from being processed: no credential, no
\* input file, or a file without text
FatalSetup == ~env.auth_token \/ ~env.file_exists \/ Render(plan) = <<>>

\* C18: the exit status is 0 for a completed run, whatever failed, and
\* non-zero exactly when a fatal setup condition kept every item from being
\* processed.
C18_ExitStatus ==
    pc = "exit" => (exit_code # 0 <=> FatalSetup)

\* C19: under a fatal setup condition no window starts: no task is created
\* (so no lookup, format or submit call is made), the counters stay at zero
\* and the run ends without a report.
C19_FatalSetupAbortsEarly ==
    FatalSetup =>
        /\ pc \in {"main", "finished", "exit"}
        /\ windows = 0
        /\ books = <<>>
        /\ task = <<>>
        /\ results = [successful |-> 0, failed |-> 0]
        /\ reports = <<>>

\* AUTH_TOKEN missing, a document with four well-formed sections: the process
\* is over and nothing ran
C19_Witness ==
    /\ pc = "exit"
    /\ ~env.auth_token
    /\ env.file_exists
    /\ Len(WellFormed(plan)) = 4
    /\ windows = 0

\* C20: the report's entries are the parsed books, one entry per book in the
\* order parse returned them, which is the order of the well-formed sections
\* in the document, whatever the order in which the tasks finished.
C20_ReportInDocumentOrder ==
    reports # <<>> =>
        LET entries == reports[1].entries
            wf == WellFormed(plan)
        IN  /\ Len(entries) = Len(books)
            /\ Len(entries) = Len(wf)
            /\ \A k \in DOMAIN entries :
                  /\ entries[k].book_number = books[k].book_number
                  /\ entries[k].title = books[k].title
                  /\ entries[k].book_number = NumberOf(wf[k])
            /\ \A j \in DOMAIN wf : \A k \in DOMAIN wf : j < k => wf[j] < wf[k]

\* a window of three in which a task finished before an earlier one (the
\* third unresolved, the first submitted); the report lists sections 1, 3, 4
C20_Witness ==
    /\ reports # <<>>
    /\ WellFormed(plan) = <<1, 3, 4>>
    /\ overtaken
    /\ task[3].term = "Unresolved"
    /\ task[1].term = "Submitted"
    /\ reports[1].entries[2].book_number = <<"3">>

-----------------------------------------------------------------------------
(* single_book.py: BookProcessor.process_all_books, one file after another.
   books is docx_files, i the index of enumerate, results the list of result
   dicts, task[k] the state of process_single_book for the k-th file.
   pc: "sb_start", "sb_loop" (head of the for loop), "sb_sleep", "sb_await"
   (awaiting process_single_book), "sb_returned", "sb_raised" (ValueError
   out of process_all_books).
   task[k].pc: "idle", "sb_lookup", "sb_format", "sb_submit", "done";
   task[k].raised: the exception that reached `except Exception`, or "none". *)

MaxFiles == 3

\* readable: extract_text_from_docx returns text (it raises ValueError otherwise)
DocxFile(n, ok) == [file |-> n, readable |-> ok]

NewFileTask == [pc |-> "idle", book_info |-> None, quiz_data |-> NoQuiz, raised |-> "none"]

\* lines 67-82: one GET, the first entry with 'nid' or a ValueError
SingleLookup(resp) ==
    IF resp.status = 0 THEN [kind |-> "raise", book |-> None, error |-> "Network error"]
    ELSE IF resp.status = 200 THEN
        IF resp.body # "object" THEN [kind |-> "raise", book |-> None, error |-> "Network error"]
        ELSE IF resp.success /\ resp.result # <<>> /\ SelectSeq(resp.result, IsBook) # <<>>
             THEN [kind |-> "return", book |-> SelectSeq(resp.result, IsBook)[1], error |-> "none"]
             ELSE [kind |-> "raise", book |-> None, error |-> "No book found"]
    ELSE [kind |-> "raise", book |-> None, error |-> "API error"]

\* lines 93-102: "none" when create_quiz returns the parsed answer
SingleCreateQuiz(sr) ==
    IF sr.status = 0 THEN "Network error"
    ELSE IF sr.status \in {200, 201}
         THEN IF sr.body = "json" THEN "none" ELSE "Network error"
         ELSE "Quiz creation API error"

\* lines 146-152 and 157-161: the dict process_single_book returns
FileResult(f, t) ==
    IF t.raised = "none"
    THEN [file |-> f.file, book_id |-> t.book_info.nid, status |-> "success"]
    ELSE [file |-> f.file, status |-> "error", error |-> t.raised]

\* mutant: a delay before the first file too
DelayBeforeEvery(idx) == TRUE

\* line 181: if i > 0
DelayBefore(idx) == idx > 0

SingleLookupResponses ==
    { LookupResponse(200, "object", TRUE, <<MetaEntry, BookEntry(55)>>),
      LookupResponse(200, "object", TRUE, <<MetaEntry>>),
      LookupResponse(200, "notjson", FALSE, <<>>),
      NotFound, ServerError, TransportError }

SingleFormatResponses ==
    { FormatResponse("quiz", 55, ExampleQuestions), FormatResponse("not_json", 0, <<>>),
      FormatResponse("api_error", 0, <<>>) }

SingleSubmitResponses ==
    { SubmitResponse(201, "json"), SubmitResponse(201, "notjson"),
      SubmitResponse(500, "notjson"), SubmitResponse(0, "none") }

RECURSIVE FileLists(_)
\* the lists glob can return, up to n files
FileLists(n) ==
    IF n = 0 THEN {<<>>}
    ELSE FileLists(n - 1)
         \cup {Append(fs, DocxFile(n, ok)) : fs \in {l \in FileLists(n - 1) : Len(l) = n - 1},
                                             ok \in BOOLEAN}

\* env.file_exists: self.books_folder.exists()
SingleInit ==
    /\ env \in {[auth_token |-> TRUE, file_exists |-> e] : e \in BOOLEAN}
    /\ reports = <<>>
    /\ exit_code = -1
    /\ overtaken = FALSE
    /\ plan = <<>>
    /\ content = <<>>
    /\ books \in FileLists(MaxFiles)
    /\ batch_size = 1
    /\ i = 0
    /\ pc = "sb_start"
    /\ task = [k \in 1..Len(books) |-> NewFileTask]
    /\ results = <<>>
    /\ windows = 0
    /\ sleeps = 0

\* lines 165-175
ListFiles ==
    /\ pc = "sb_start"
    /\ pc' = IF env.file_exists /\ books # <<>> THEN "sb_loop" ELSE "sb_raised"
    /\ UNCHANGED <<env, reports, exit_code, overtaken, plan, content, books, batch_size, i,
                   task, results, windows, sleeps>>

\* lines 180-185 and 188: the next file, after a delay when it is not the
\* first; the return after the last
NextFile ==
    /\ pc = "sb_loop"
    /\ IF i < Len(books)
       THEN IF DelayBefore(i)
            THEN pc' = "sb_sleep" /\ sleeps' = sleeps + 1 /\ task' = task
            ELSE /\ pc' = "sb_await"
                 /\ sleeps' = sleeps
                 /\ task' = [task EXCEPT ![i + 1].pc = "sb_lookup"]
       ELSE pc' = "sb_returned" /\ sleeps' = sleeps /\ task' = task
    /\ UNCHANGED <<env, reports, exit_code, overtaken, plan, content, books, batch_size, i,
                   results, windows>>

\* lines 183-185
DelayDone ==
    /\ pc = "sb_sleep"
    /\ pc' = "sb_await"
    /\ task' = [task EXCEPT ![i + 1].pc = "sb_lookup"]
    /\ UNCHANGED <<env, reports, exit_code, overtaken, plan, content, books, batch_size, i,
                   results, windows, sleeps>>

\* mutant: an exception of process_single_book leaves process_all_books
FileDonePropagating(t) ==
    /\ task' = [task EXCEPT ![i + 1] = [t EXCEPT !.pc = "done"]]
    /\ IF t.raised = "none"
       THEN results' = Append(results, FileResult(books[i + 1], t)) /\ i' = i + 1 /\ pc' = "sb_loop"
       ELSE results' = results /\ i' = i /\ pc' = "sb_raised"
    /\ UNCHANGED <<env, reports, exit_code, overtaken, plan, content, books, batch_size,
                   windows, sleeps>>

\* lines 146-161 and 185-186: process_single_book returns its dict, which is
\* appended, and the loop goes on
FileDone(t) ==
    /\ task' = [task EXCEPT ![i + 1] = [t EXCEPT !.pc = "done"]]
    /\ results' = Append(results, FileResult(books[i + 1], t))
    /\ i' = i + 1
    /\ pc' = "sb_loop"
    /\ UNCHANGED <<env, reports, exit_code, overtaken, plan, content, books, batch_size,
                   windows, sleeps>>

FileAwait(t) ==
    /\ task' = [task EXCEPT ![i + 1] = t]
    /\ UNCHANGED <<env, reports, exit_code, overtaken, plan, content, books, batch_size, i,
                   pc, results, windows, sleeps>>

\* lines 114-132: the lookup returns, the text is extracted and the formatter
\* is called
FileLookupReply(resp) ==
    /\ pc = "sb_await"
    /\ task[i + 1].pc = "sb_lookup"
    /\ LET found == SingleLookup(resp)
           t == task[i + 1]
       IN  IF found.kind = "raise" THEN FileDone([t EXCEPT !.raised = found.error])
           ELSE IF ~books[i + 1].readable
                THEN FileDone([t EXCEPT !.book_info = found.book,
                                        !.raised = "Unable to extract text"])
                ELSE FileAwait([t EXCEPT !.pc = "sb_format", !.book_info = found.book])

\* lines 132-143
FileFormatReply(fr) ==
    /\ pc = "sb_await"
    /\ task[i + 1].pc = "sb_format"
    /\ LET t == task[i + 1]
       IN  IF SuggestionRaises(fr) THEN FileDone([t EXCEPT !.raised = fr.kind])
           ELSE FileAwait([t EXCEPT !.pc = "sb_submit", !.quiz_data = QuizData(fr)])

\* lines 143-152
FileSubmitReply(sr) ==
    /\ pc = "sb_await"
    /\ task[i + 1].pc = "sb_submit"
    /\ FileDone([task[i + 1] EXCEPT !.raised = SingleCreateQuiz(sr)])

SingleNext ==
    \/ ListFiles
    \/ NextFile
    \/ DelayDone
    \/ \E resp \in SingleLookupResponses : FileLookupReply(resp)
    \/ \E fr \in SingleFormatResponses : FileFormatReply(fr)
    \/ \E sr \in SingleSubmitResponses : FileSubmitReply(sr)

SingleSpec == SingleInit /\ [][SingleNext]_vars

\* the two sequential schedules side by side: process_books_in_batches with
\* batch_size 1 and single_book's process_all_books
SeqInit == (Init /\ batch_size = 1) \/ SingleInit

SeqNext == Next \/ SingleNext

SeqSpec == SeqInit /\ [][SeqNext]_vars

-----------------------------------------------------------------------------
(* Claims about the windows of a run *)

\* the counters count exactly the first n items
CountedUpTo(n) ==
    /\ results.successful = Cardinality({k \in Items : k <= n /\ task[k].ret = "true"})
    /\ results.failed = Cardinality({k \in Items : k <= n /\ task[k].ret = "false"})
    /\ results.successful + results.failed = Min(n, Len(books))

C21_CountersStep ==
    results' # results =>
        /\ pc = "gather"
        /\ pc' # "gather"
        /\ \A k \in Batch(Len(books), i, batch_size) : Terminal(k)

C21_CountersAtBarrier ==
    /\ pc = "gather" => CountedUpTo(i)
    /\ pc = "sleep" => CountedUpTo(i + batch_size)
    /\ pc \in {"loop", "returned"} => CountedUpTo(i)

\* C21: the counters change only in the step that ends a window's gather,
\* when every task of the window is done; while a window runs they count the
\* items of the earlier windows, and after the barrier of window k they count
\* the items of windows 1..k.
C21_CountersOnlyAtBarrier == [][C21_CountersStep]_vars /\ []C21_CountersAtBarrier

\* in the second window of two, one task failed and the other still waits
\* for create_quiz: the counters are those of the first window
C21_Witness ==
    /\ pc = "gather"
    /\ batch_size = 2
    /\ windows = 2
    /\ Len(books) = 4
    /\ task[3].term = "Unresolved"
    /\ task[4].pc = "submit"
    /\ results.successful + results.failed = 2

\* tasks created and not done; tasks holding a connection of the session
InFlight == {k \in Items : task[k].pc \notin {"idle", "done"}}
Connected == {k \in Items : task[k].pc \in {"lookup1", "lookup2", "submit"}}

\* C22: the tasks created and not yet done are at most batch_size and belong
\* to one window; with batch_size 3 the requests open on the session stay
\* within limit_per_host 5 and limit 10.
C22_BoundedConcurrency ==
    /\ Cardinality(InFlight) <= batch_size
    /\ \A j \in InFlight : \A k \in InFlight : WindowOf(j) = WindowOf(k)
    /\ batch_size = BatchSizeOfMain =>
          /\ Cardinality(Connected) <= LimitPerHost
          /\ Cardinality(Connected) <= ConnectorLimit

\* three tasks of a window of three hold a connection at once
C22_Witness ==
    /\ batch_size = BatchSizeOfMain
    /\ Cardinality(Connected) = 3
    /\ Len(books) >= 3
    /\ task[1].pc = "lookup2"
    /\ task[2].pc = "submit"
    /\ task[3].pc = "lookup1"

C24_Completed ==
    pc = "returned" =>
        /\ windows = CeilDiv(Len(books), batch_size)
        /\ \A k \in Items : Terminal(k) /\ task[k].created = 1 /\ task[k].term \in TerminalStates
        /\ results.successful + results.failed = Len(books)

\* C24: under fair scheduling, once a window has started the run reaches its
\* return; and it returns only after every window ran and every item is
\* terminal, whatever happened to single items.
C24_RunsToCompletion == (windows > 0 ~> pc = "returned") /\ []C24_Completed

\* the first window's items all failed and the run went on to the second
C24_Witness ==
    /\ pc = "returned"
    /\ batch_size = 3
    /\ windows = 2
    /\ Len(books) = 4
    /\ \A k \in 1..3 : task[k].ret = "false"
    /\ task[4].term = "Submitted"

-----------------------------------------------------------------------------
(* Claims about the sequential schedules *)

NumberDone == Cardinality({k \in Items : Terminal(k)})

\* C23: with batch_size 1, and in single_book's process_all_books, at most
\* one item is in progress, an item starts only when all earlier items are
\* done, the k-th item runs after exactly k - 1 delays, a delay happens only
\* between two items, and at the return there were len - 1 delays.
C23_StrictlySequential ==
    /\ Cardinality(InFlight) <= 1
    /\ \A k \in Items : task[k].pc # "idle" => \A j \in 1..(k - 1) : Terminal(j)
    /\ \A k \in InFlight : sleeps = k - 1
    /\ pc \in {"sleep", "sb_sleep"} =>
          sleeps = NumberDone /\ 0 < NumberDone /\ NumberDone < Len(books) /\ InFlight = {}
    /\ pc \in {"returned", "sb_returned"} =>
          NumberDone = Len(books) /\ sleeps = (IF books = <<>> THEN 0 ELSE Len(books) - 1)

\* process_books_in_batches runs the third of its items after two delays
C23_Witness ==
    /\ pc = "gather"
    /\ Len(books) >= 3
    /\ task[3].pc = "format"
    /\ sleeps = 2

\* process_all_books runs the third of its files after two delays
C23_WitnessSingle ==
    /\ pc = "sb_await"
    /\ Len(books) >= 3
    /\ task[3].pc = "sb_format"
    /\ sleeps = 2

\* C28: process_all_books returns one dict per file, in the order of the
\* list, each "success" or "error"; a file whose processing raised has an
\* "error" dict, and the files after it are processed all the same.
C28_OneResultPerFile ==
    /\ Len(results) = NumberDone
    /\ \A k \in Items : Terminal(k) =>
          /\ k <= Len(results)
          /\ results[k].file = books[k].file
          /\ results[k].status \in {"success", "error"}
          /\ results[k].status = "error" <=> task[k].raised # "none"
    /\ pc = "sb_returned" => Len(results) = Len(books) /\ books # <<>>
    /\ pc = "sb_raised" => results = <<>> /\ NumberDone = 0 /\ (books = <<>> \/ ~env.file_exists)

\* the lookup of the first file and the extraction of the second raised;
\* the third file was processed and the list returned
C28_Witness ==
    /\ pc = "sb_returned"
    /\ Len(results) = 3
    /\ task[1].raised = "API error"
    /\ task[2].raised = "Unable to extract text"
    /\ results[1].status = "error"
    /\ results[2].status = "error"
    /\ results[3].status = "success"

-----------------------------------------------------------------------------
(* Claims about the queries, the matches and the request body *)

IsAlphanumeric(c) == c \in Letters \cup Digits

IsAlphanumericOrSpace(c) == IsAlphanumeric(c) \/ IsSpace(c)

\* C25: the simplified query is the primary query without the characters
\* that are neither alphanumeric nor whitespace, every other character in
\* its place; it holds alphanumeric and whitespace characters only.
C25_SimplifiedQuery ==
    Len(task[1].queries) = 2 =>
        LET primary == Unquote(task[1].queries[1])
            simplified == Unquote(task[1].queries[2])
        IN  /\ simplified = SelectSeq(primary, IsAlphanumericOrSpace)
            /\ \A j \in 1..Len(simplified) : IsAlphanumericOrSpace(simplified[j])

\* C26: an item that ends Unresolved after a lookup answered with a status
\* other than 200 and 404 has that answer in what is reported for it.
C26_StatusInDetail ==
    (task[1].term = "Unresolved" /\ task[1].lookup.status \notin {-1, 0, 200, 404}) =>
        "API request failed" \in Range(task[1].log)

\* C27: the entry the resolver returns has a positive nid, and the formatter
\* is called with a positive id only.
C27_PositiveCatalogId ==
    /\ IsBook(task[1].book_info) => task[1].book_info.nid > 0
    /\ task[1].formatCalls > 0 => task[1].book_info.nid > 0

\* C30: the bookId of the body handed to create_quiz is the nid of the entry
\* the resolver returned for the item.
C30_BodyCarriesResolvedId ==
    task[1].submitCalls > 0 => task[1].quiz_data.bookId = task[1].book_info.nid

-----------------------------------------------------------------------------
(* Claims about the quiz text of the parsed items *)

\* the position of the first well-formed section after the j-th, or one past
\* the last section
RECURSIVE NextWellFormed(_, _)
NextWellFormed(p, j) ==
    IF j + 1 > Len(p) THEN Len(p) + 1
    ELSE IF p[j + 1].kind = "ok" THEN j + 1
    ELSE NextWellFormed(p, j + 1)

\* the document text from the header of section a to the end of section b
RECURSIVE TextOfSections(_, _, _)
TextOfSections(p, a, b) ==
    IF a > b THEN <<>>
    ELSE HeaderLine(p[a], a) \o <<"\n">> \o SectionBody
         \o (IF a < b THEN <<"\n">> \o TextOfSections(p, a + 1, b) ELSE <<>>)

\* C29: there is one item per well-formed header, and its quiz text is the
\* document text from that header up to the next well-formed header or the
\* end of the document, the malformed sections in between included; the
\* text before the first well-formed header is in no item.
C29_QuizTextUpToNextHeader ==
    pc = "parsed" =>
        LET wf == WellFormed(plan)
        IN  /\ Len(books) = Len(wf)
            /\ \A j \in 1..Len(wf) :
                  books[j].quiz_content =
                      TextOfSections(plan, wf[j], NextWellFormed(plan, wf[j]) - 1)

-----------------------------------------------------------------------------
(* Claims about a 200 without a match *)

\* a 200 whose object has success false, an empty result, or a result
\* without any element that has 'nid'
NoUsableMatch(r) ==
    /\ r.status = 200
    /\ r.body = "object"
    /\ ~r.success \/ r.result = <<>> \/ ~HasValid(r.result)

\* a task without the response it received and the lines logged for it
Control(t) == [t EXCEPT !.lookup = NoResponse, !.log = <<>>]

C31_FirstAttemptStep ==
    (FirstResponseStep /\ NoUsableMatch(task'[1].lookup)) =>
        /\ Control(task'[1]) = Control(AfterLookup1(task[1], TheTitle, NotFound))
        /\ "Error fetching book info" \notin Range(task'[1].log)
        /\ task'[1].pc = "lookup2" <=> QueriesDiffer
        /\ task'[1].pc = "lookup2" => task'[1].queries[2] = SecondQuery(TheTitle)

C31_SecondAttemptStep ==
    (task[1].pc = "lookup2" /\ task'[1].pc # "lookup2" /\ NoUsableMatch(task'[1].lookup)) =>
        /\ Control(task'[1]) = Control(AfterLookup2(task[1], NotFound))
        /\ "Error fetching book info" \notin Range(task'[1].log)
        /\ task'[1].term = "Unresolved"

\* C31: a 200 answer without a usable entry moves the resolver as a 404
\* does: no exception is handled, after the first attempt the simplified
\* query is sent exactly when it differs from the first query, and after
\* the second attempt the title is Unresolved.
C31_EmptyLikeNotFound == [][C31_FirstAttemptStep]_vars /\ [][C31_SecondAttemptStep]_vars

\* "B:" answered 200 with pagination data only: the second request, for
\* "B", is in flight
C31_Witness ==
    /\ TheTitle = <<"B", ":">>
    /\ task[1].pc = "lookup2"
    /\ task[1].lookup = LookupResponse(200, "object", TRUE, <<MetaEntry>>)
    /\ task[1].queries = <<FirstQuery(TheTitle), SecondQuery(TheTitle)>>

-----------------------------------------------------------------------------
(* test_book_id.py: BookTitleTester.parse_book_titles, the dry run's parser *)

\* mutant: the title without re.sub(r'\s+', ' ', title)
TitleOfUncollapsed(section_header) ==
    LET book_header == Strip(section_header)
        header_match == HeaderMatch(book_header)
    IN  [book_number |-> header_match.number,
         title |-> Strip(header_match.title),
         author |-> SelectSeq(Strip(header_match.author), NotQuote)]

\* test_book_id.py lines 47-62: the dict of one header
TitleOf(section_header) ==
    LET book_header == Strip(section_header)
        header_match == HeaderMatch(book_header)
    IN  [book_number |-> header_match.number,
         title |-> CollapseSpaces(Strip(header_match.title)),
         author |-> SelectSeq(Strip(header_match.author), NotQuote)]

RECURSIVE TitlesFrom(_, _)
\* test_book_id.py lines 46-62: the loop `for i in range(1, len(sections), 2)`,
\* i 0-based; there is no test of i + 1 < len(sections) here
TitlesFrom(sections, idx) ==
    IF idx >= Len(sections) THEN <<>>
    ELSE (IF HeaderMatch(Strip(sections[idx + 1])).matched
          THEN <<TitleOf(sections[idx + 1])>>
          ELSE <<>>)
         \o TitlesFrom(sections, idx + 2)

\* test_book_id.py lines 37-64; the pattern of line 42 is that of
\* multiple_book.py line 58
ParseBookTitles(text) == TitlesFrom(Sections(text, 1), 1)

\* a document whose last paragraph is a header: no quiz text after it
RenderWithoutLastBody(p) ==
    SubSeq(Render(p), 1, Len(Render(p)) - Len(SectionBody) - 1)

DryRunInit ==
    /\ env = [auth_token |-> TRUE, file_exists |-> TRUE]
    /\ reports = <<>>
    /\ exit_code = -1
    /\ overtaken = FALSE
    /\ plan \in Plans(MaxSections)
    /\ content \in {Render(plan)} \cup (IF plan = <<>> THEN {} ELSE {RenderWithoutLastBody(plan)})
    /\ books = <<>>
    /\ batch_size = 3
    /\ i = 0
    /\ pc = "parse"
    /\ task = <<>>
    /\ results = [successful |-> 0, failed |-> 0]
    /\ windows = 0
    /\ sleeps = 0

\* books = self.parse_book_titles(content)
ParseTitles ==
    /\ pc = "parse"
    /\ books' = ParseBookTitles(content)
    /\ pc' = "titles"
    /\ UNCHANGED <<env, reports, exit_code, overtaken, plan, content, batch_size, i, task,
                   results, windows, sleeps>>

DryRunNext == ParseBooks \/ ParseTitles

\* one document given to either parser
DryRunSpec == DryRunInit /\ [][DryRunNext]_vars

-----------------------------------------------------------------------------
(* Claims about the two parsers *)

\* book number, title and author of a parsed item
Identity(b) == [book_number |-> b.book_number, title |-> b.title, author |-> b.author]

IdentitiesOf(items) == [j \in 1..Len(items) |-> Identity(items[j])]

\* C32: on one document parse_book_titles and parse_multiple_books return
\* lists of the same length with the same book number, title and author at
\* every position.
C32_ParsersAgree ==
    /\ pc = "parsed" => IdentitiesOf(books) = ParseBookTitles(content)
    /\ pc = "titles" => books = IdentitiesOf(ParseMultipleBooks(content))

\* the dry run parsed a document that ends with a header; its first title
\* had a run of spaces
C32_Witness ==
    /\ pc = "titles"
    /\ Len(plan) = 2
    /\ content = RenderWithoutLastBody(plan)
    /\ Len(books) = 2
    /\ plan[1].raw = <<"a", " ", " ", "B">>
    /\ books[1].title = <<"a", " ", "B">>

====
